---- MODULE Spec2Model ----
(***************************************************************************)
(* The WebSocket/SSE event gateway of src/server/ws-gateway.js.            *)
(*                                                                         *)
(* Every client connection `ws` owns the table ws._streams (chat id ->     *)
(* {ctrl, replay}).  attachSSE registers a pump in the table, opens the    *)
(* upstream request and forwards the frames of the upstream body to the    *)
(* client; the message and close handlers abort and unregister pumps.      *)
(* A handler runs to completion (one JavaScript task); a pump is suspended *)
(* at `await fetch` or at the read of the next chunk between its steps.    *)
(***************************************************************************)
EXTENDS Integers, Sequences, FiniteSets, TLC

\* ------------------------------------------------------------------ bounds
MaxPumps == 3     \* attachSSE invocations per connection
MaxChunks == 1    \* chunks the upstreams deliver to the pumps of one connection
MaxArr == 2       \* length of the chatIds array of a subscribeMany message

Conns == {"c1", "c2"}
\* the specifications of one connection open this one only
Single == {"c1"}
Ids == {"a", "b"}
\* what a client may put where a chat id is expected: "" is falsy in JavaScript
IdInputs == Ids \cup {""}

NL == "\n"
SP == " "

\* ------------------------------------------------------------ text helpers
\* JavaScript strings are sequences of one-character strings.
StartsWith(s, pre) ==
  /\ Len(s) >= Len(pre)
  /\ SubSeq(s, 1, Len(pre)) = pre

Slice(s, n) == SubSeq(s, n + 1, Len(s))

IsSpace(ch) == ch \in {SP, "\t", "\r", NL}

RECURSIVE TrimLeft(_)
TrimLeft(s) == IF s # <<>> /\ IsSpace(Head(s)) THEN TrimLeft(Tail(s)) ELSE s

RECURSIVE TrimRight(_)
TrimRight(s) ==
  IF s # <<>> /\ IsSpace(s[Len(s)]) THEN TrimRight(SubSeq(s, 1, Len(s) - 1)) ELSE s

Trim(s) == TrimRight(TrimLeft(s))

\* buffer.indexOf('\n\n'), 1-based; 0 when absent
IndexOfBoundary(s) ==
  LET hits == {i \in 1..(Len(s) - 1) : s[i] = NL /\ s[i + 1] = NL}
  IN IF hits = {} THEN 0 ELSE CHOOSE i \in hits : \A j \in hits : i <= j

\* frame.split('\n')
RECURSIVE SplitLines(_)
SplitLines(s) ==
  LET hits == {i \in 1..Len(s) : s[i] = NL}
  IN IF hits = {} THEN <<s>>
     ELSE LET i == CHOOSE k \in hits : \A j \in hits : k <= j
          IN <<SubSeq(s, 1, i - 1)>> \o SplitLines(SubSeq(s, i + 1, Len(s)))

EventMarker == <<"e", "v", "e", "n", "t", ":">>
DataMarker == <<"d", "a", "t", "a", ":">>
DefaultEvent == <<"m", "e", "s", "s", "a", "g", "e">>

\* ------------------------------------------------------------ frame parser
\* variant: what follows the last complete frame is not kept
RECURSIVE parseSSEFramesDropRest(_, _)
parseSSEFramesDropRest(frames, buffer) ==
  LET idx == IndexOfBoundary(buffer)
  IN IF idx = 0 THEN [frames |-> frames, buffer |-> <<>>]
     ELSE parseSSEFramesDropRest(Append(frames, SubSeq(buffer, 1, idx - 1)),
                                 SubSeq(buffer, idx + 2, Len(buffer)))

RECURSIVE parseSSEFramesFrom(_, _)
parseSSEFramesFrom(frames, buffer) ==
  LET idx == IndexOfBoundary(buffer)
  IN IF idx = 0 THEN [frames |-> frames, buffer |-> buffer]
     ELSE parseSSEFramesFrom(Append(frames, SubSeq(buffer, 1, idx - 1)),
                             SubSeq(buffer, idx + 2, Len(buffer)))

parseSSEFrames(buffer) == parseSSEFramesFrom(<<>>, buffer)

Digits == {"0", "1", "2", "3", "4", "5", "6", "7", "8", "9"}

\* JSON.parse succeeds on the texts of the model that are JSON: the numbers.
JsonValid(data) ==
  /\ data # <<>>
  /\ \A i \in 1..Len(data) : data[i] \in Digits
  /\ (Len(data) > 1 => data[1] # "0")

\* variant: the first event line of a frame names it
RECURSIVE parseFrameLinesFirstEvent(_, _, _)
parseFrameLinesFirstEvent(lines, event, data) ==
  IF lines = <<>> THEN [event |-> event, data |-> data]
  ELSE LET line == Head(lines)
           ev == IF StartsWith(line, EventMarker) /\ event = DefaultEvent
                 THEN Trim(Slice(line, 6)) ELSE event
           da == IF StartsWith(line, DataMarker) THEN data \o Trim(Slice(line, 5)) ELSE data
       IN parseFrameLinesFirstEvent(Tail(lines), ev, da)

RECURSIVE parseFrameLines(_, _, _)
parseFrameLines(lines, event, data) ==
  IF lines = <<>> THEN [event |-> event, data |-> data]
  ELSE LET line == Head(lines)
           ev == IF StartsWith(line, EventMarker) THEN Trim(Slice(line, 6)) ELSE event
           da == IF StartsWith(line, DataMarker) THEN data \o Trim(Slice(line, 5)) ELSE data
       IN parseFrameLines(Tail(lines), ev, da)

Null == [null |-> TRUE]

\* variant: data that is not JSON is passed on as text
parseFrameRaw(frame) ==
  LET r == parseFrameLines(SplitLines(frame), DefaultEvent, <<>>)
  IN IF r.data = <<>> THEN Null ELSE [event |-> r.event, payload |-> r.data]

\* variant: only the first line of a frame is read
parseFrameFirstLine(frame) ==
  LET r == parseFrameLines(<<Head(SplitLines(frame))>>, DefaultEvent, <<>>)
  IN IF r.data = <<>> THEN Null
     ELSE IF JsonValid(r.data) THEN [event |-> r.event, payload |-> r.data]
     ELSE Null

parseFrame(frame) ==
  LET r == parseFrameLines(SplitLines(frame), DefaultEvent, <<>>)
  IN IF r.data = <<>> THEN Null
     ELSE IF JsonValid(r.data) THEN [event |-> r.event, payload |-> r.data]
     ELSE Null


\* ------------------------------------------------------------------- state
VARIABLES
  conn,      \* conn[c]: "none" before the connection event, "open", "closed";
             \*   "crashed" when the process has ended
  streams,   \* streams[c]: ws._streams, a Map in insertion order;
             \*   an entry is [key |-> chat id, ctrl |-> pump, replay |-> flag]
  pumps,     \* pumps[c]: the attachSSE invocations of the connection, in call
             \*   order; a pump is named by its index (its AbortController)
  outbox,    \* outbox[c]: the envelopes written with ws.send, in order
  delivered, \* delivered[c]: chunks the upstreams have delivered so far
  wire,      \* wire[c]: control messages the browser has sent on connection c
             \*   that the gateway has not handled yet, in order
  ui,        \* the state of the next-ui page (see UiInit)
  app        \* the state of the page of src/app (see AppInit)

vars == <<conn, streams, pumps, outbox, delivered, wire, ui, app>>

PumpIds(c) == 1..Len(pumps[c])

\* ----------------------------------------------------------- Map (ES2015)
MapKeys(m) == {m[i].key : i \in 1..Len(m)}
MapHas(m, k) == k \in MapKeys(m)
MapGet(m, k) == LET i == CHOOSE j \in 1..Len(m) : m[j].key = k IN m[i]
MapSet(m, k, v) ==
  IF MapHas(m, k)
  THEN [i \in 1..Len(m) |-> IF m[i].key = k THEN v ELSE m[i]]
  ELSE Append(m, v)
MapDelete(m, k) == SelectSeq(m, LAMBDA e : e.key # k)
\* the pump registered under k, 0 when k has no entry
CtrlOf(m, k) == IF MapHas(m, k) THEN MapGet(m, k).ctrl ELSE 0

\* new Set(array): the distinct elements in order of first occurrence
RECURSIVE SetOfArray(_, _)
SetOfArray(acc, arr) ==
  IF arr = <<>> THEN acc
  ELSE SetOfArray(IF \E i \in 1..Len(acc) : acc[i] = Head(arr)
                  THEN acc ELSE Append(acc, Head(arr)),
                  Tail(arr))

Elems(seq) == {seq[i] : i \in 1..Len(seq)}

\* JSON values that are not strings, as a client may put them where a chat
\* id is expected: the number 0 and the array ["a"]
JsZero == "<0>"
JsArrayOfA == "<[a]>"
NonStrings == {JsZero, JsArrayOfA}

\* String(v): a string is itself, String(0) is "0", String(["a"]) is "a"
String(v) == IF v = JsZero THEN "0" ELSE IF v = JsArrayOfA THEN "a" ELSE v

\* Boolean(x): the empty string and 0 are falsy, an array is truthy
Truthy(x) == x \notin {"", JsZero}

\* ----------------------------------------------------------------- pumps
\* an invocation that has returned: its locals and its controller are gone
Done ==
  [chatId |-> "", flag |-> "", aborted |-> FALSE, pc |-> "done",
   sent |-> <<>>, queue |-> <<>>, buf |-> <<>>]

ReplayFlag(replay) == IF replay THEN "1" ELSE "0"

NewPump(chatId, replay) ==
  [chatId |-> chatId,
   flag |-> ReplayFlag(replay),   \* ...events?replay=<flag> of the request
   aborted |-> FALSE,             \* ctrl.signal.aborted
   pc |-> "fetch",                \* "fetch": at line 40, "read": at line 44
   sent |-> <<>>,                 \* the text the upstream has written to res.body
   queue |-> <<>>,                \* chunks of res.body not yet read
   buf |-> <<>>]

\* a pump that was started and has not terminated
Live(pump) == pump.pc \in {"fetch", "read"}
\* a pump that is active: started, not cancelled, not terminated
Active(pump) == Live(pump) /\ ~pump.aborted

\* -------------------------------------------------- handler-local state
\* A handler works on st = [streams, pumps, ev] of its connection: the table,
\* the pumps and the calls made so far, in order.  The action installs the
\* table and the pumps.  A call is [k, id, p, old]: "abort" of pump p,
\* "delete" of key id that held pump p (0: no entry), "set" of key id to
\* pump p over pump old (0: no entry), "fetch" by pump p, "clear" of the
\* entry of key id that held pump p.
Ev(k, id, p) == [k |-> k, id |-> id, p |-> p, old |-> 0]

St(c) == [streams |-> streams[c], pumps |-> pumps[c], ev |-> <<>>]

\* ctrl.abort() on the controller of pump p
Abort(st, p) ==
  [st EXCEPT !.pumps[p].aborted = TRUE,
             !.ev = Append(@, Ev("abort", st.pumps[p].chatId, p))]

\* ws._streams.delete(chatId)
Delete(st, chatId) ==
  [st EXCEPT !.streams = MapDelete(@, chatId),
             !.ev = Append(@, Ev("delete", chatId, CtrlOf(st.streams, chatId)))]

\* attachSSE up to its first await: lines 35-40
attachSSE(st, chatId, replay) ==
  LET p == Len(st.pumps) + 1
  IN [streams |-> MapSet(st.streams, chatId,
                         [key |-> chatId, ctrl |-> p, replay |-> replay]),
      pumps |-> Append(st.pumps, NewPump(chatId, replay)),
      ev |-> st.ev \o <<[Ev("set", chatId, p) EXCEPT !.old = CtrlOf(st.streams, chatId)],
                        Ev("fetch", chatId, p)>>]

\* subscribeMany, first loop: lines 68-73
RECURSIVE DropNotIn(_, _, _)
DropNotIn(st, entries, next) ==
  IF entries = <<>> THEN st
  ELSE LET e == Head(entries)
       IN DropNotIn(IF e.key \notin Elems(next)
                    THEN Delete(Abort(st, e.ctrl), e.key)
                    ELSE st,
                    Tail(entries), next)

\* variant: the second loop starts a pump for every id of the set
RECURSIVE AttachAll(_, _, _)
AttachAll(st, next, replay) ==
  IF next = <<>> THEN st
  ELSE AttachAll(attachSSE(st, Head(next), replay), Tail(next), replay)

\* subscribeMany, second loop: lines 74-77
RECURSIVE AttachMissing(_, _, _)
AttachMissing(st, next, replay) ==
  IF next = <<>> THEN st
  ELSE AttachMissing(IF MapHas(st.streams, Head(next))
                     THEN st
                     ELSE attachSSE(st, Head(next), replay),
                     Tail(next), replay)

\* new Set((chatIds || []).filter(Boolean)): line 67
NextOf(chatIds) == SetOfArray(<<>>, SelectSeq(chatIds, Truthy))

\* variant: every registered pump is cancelled and started again
subscribeManyRestart(st, chatIds, replay) ==
  LET next == NextOf(chatIds)
  IN AttachMissing(DropNotIn(st, st.streams, <<>>), next, replay)

\* variant: the new pumps always ask for replay, as the subscribe branch does
subscribeManyReplayOn(st, chatIds, replay) ==
  LET next == NextOf(chatIds)
  IN AttachMissing(DropNotIn(st, st.streams, next), next, TRUE)

subscribeMany(st, chatIds, replay) ==
  LET next == NextOf(chatIds)
  IN AttachMissing(DropNotIn(st, st.streams, next), next, replay)

\* variant: the new pump is registered over the old one, which is aborted last
subscribeAbortLast(st, chatId) ==
  LET existing == CtrlOf(st.streams, chatId)
      st1 == attachSSE(st, chatId, TRUE)
  IN IF existing # 0 THEN Abort(st1, existing) ELSE st1

\* the subscribe branch of ws.on('message'): lines 91-100
subscribe(st, chatId) ==
  LET existing == CtrlOf(st.streams, chatId)
      st1 == IF existing # 0 THEN Delete(Abort(st, existing), chatId) ELSE st
  IN attachSSE(st1, chatId, TRUE)

\* ws.on('close'): lines 103-108
RECURSIVE AbortAll(_, _)
AbortAll(st, entries) ==
  IF entries = <<>> THEN st
  ELSE AbortAll(Abort(st, Head(entries).ctrl), Tail(entries))

closeHandler(st) ==
  LET st1 == AbortAll(st, st.streams)
  IN [st1 EXCEPT !.streams = <<>>,
                 !.ev = @ \o [i \in 1..Len(st1.streams) |->
                                Ev("clear", st1.streams[i].key, st1.streams[i].ctrl)]]

\* ------------------------------------------------------ control messages
Arrays == UNION {[1..n -> IdInputs] : n \in 0..MaxArr}

SubscribeMsgs == [type : {"subscribe"}, chatId : IdInputs, replay : BOOLEAN]
SubscribeManyMsgs == [type : {"subscribeMany"}, chatIds : Arrays, replay : BOOLEAN]
Messages == SubscribeMsgs \cup SubscribeManyMsgs

\* What else a client may send.  A message is the record of its JSON object;
\* a field that is missing, and a chatIds that is not an array (the handler
\* reads it through Array.isArray only), is not in the record.
NotJson == [json |-> "invalid"]     \* JSON.parse throws
JsonNull == [json |-> "null"]       \* the literal null
JsonScalar == [json |-> "scalar"]   \* a number, a string, true, false
NonObjects == {NotJson, JsonNull, JsonScalar}

BadArrays ==
  UNION {[1..n -> {"b", JsArrayOfA}] : n \in 1..MaxArr} \ Arrays
BadSubscribeMsgs ==
  [type : {"subscribe"}, chatId : NonStrings, replay : {FALSE}]
  \cup [type : {"subscribe"}, replay : {FALSE}]
BadSubscribeManyMsgs ==
  [type : {"subscribeMany"}, chatIds : BadArrays, replay : {FALSE}]
  \cup [type : {"subscribeMany"}, replay : {FALSE}]
Malformed == NonObjects \cup BadSubscribeMsgs \cup BadSubscribeManyMsgs

\* objects of another type, with the fields of the known types or without
OtherMsgs ==
  [type : {"unsubscribe"}, chatId : Ids]
  \cup [type : {"subscribeAll"}, chatIds : {<<"a", "b">>}, replay : {TRUE}]
  \cup {[chatId |-> "a"], [type |-> "ping"]}

Inbound == Messages \cup Malformed \cup OtherMsgs

IsObject(msg) == "json" \notin DOMAIN msg
HasField(msg, f) == f \in DOMAIN msg
\* chatIds.map(String)
MapString(arr) == [i \in 1..Len(arr) |-> String(arr[i])]

\* reading msg.type of the parsed value throws: line 87 is outside the try
Throws(msg) == msg = JsonNull

\* variant: an object of another type that names a chat is taken as subscribe
onMessageAnyType(st, msg) ==
  IF ~IsObject(msg) THEN st
  ELSE IF HasField(msg, "type") /\ msg.type = "subscribeMany" /\ HasField(msg, "chatIds")
  THEN subscribeMany(st, MapString(msg.chatIds), msg.replay)
  ELSE IF HasField(msg, "chatId") /\ Truthy(msg.chatId)
  THEN subscribe(st, String(msg.chatId))
  ELSE st

\* ws.on('message'): lines 80-101, for a message that does not throw
onMessage(st, msg) ==
  IF ~IsObject(msg) THEN st
  ELSE IF HasField(msg, "type") /\ msg.type = "subscribeMany" /\ HasField(msg, "chatIds")
  THEN subscribeMany(st, MapString(msg.chatIds), msg.replay)
  ELSE IF HasField(msg, "type") /\ msg.type = "subscribe"
          /\ HasField(msg, "chatId") /\ Truthy(msg.chatId)
  THEN subscribe(st, String(msg.chatId))
  ELSE st

\* an exception that no handler catches ends the Node.js process: every
\* connection, table and pump of the process is gone
Crash ==
  /\ conn' = [c \in Conns |-> "crashed"]
  /\ streams' = [c \in Conns |-> <<>>]
  /\ pumps' = [c \in Conns |-> <<>>]

Install(c, st) ==
  /\ streams' = [streams EXCEPT ![c] = st.streams]
  /\ pumps' = [pumps EXCEPT ![c] = st.pumps]

\* ------------------------------------------------------- the next-ui page
\* src/next-ui/app/page.tsx: the refs and state of HomePage that decide what
\* is sent on the WebSocket.  "" stands for null.
UiInit ==
  [socks |-> <<>>,       \* the WebSockets created so far: "connecting", "open",
                         \*   "closing" (ws.close() called), "closed"
   cur |-> 0,            \* wsRef.current: an index of socks, 0 for null
   subscribed |-> "",    \* subscribedChatIdRef.current
   selected |-> "",      \* effectiveSelectedChatId
   term |-> "",          \* the chat whose terminal is being initialised
   sent |-> <<>>]        \* sent[i]: the chat ids of the subscribe messages
                         \*   sent on socket i, in order

\* src/app/page.tsx: what the page knows of the project, "" for null
AppInit ==
  [projectChats |-> <<>>,   \* the ids of projectChats (lines 73-76)
   selected |-> ""]         \* effectiveSelectedChatId (lines 78-81)

\* ---------------------------------------------------------------- actions
Init ==
  /\ conn = [c \in Conns |-> "none"]
  /\ streams = [c \in Conns |-> <<>>]
  /\ pumps = [c \in Conns |-> <<>>]
  /\ outbox = [c \in Conns |-> <<>>]
  /\ delivered = [c \in Conns |-> 0]
  /\ wire = [c \in Conns |-> <<>>]
  /\ ui = UiInit
  /\ app = AppInit

\* a step of the gateway: the browser side is as before
NoClient == UNCHANGED <<wire, ui, app>>

\* wss.on('connection'): lines 63-64
Connection(c) ==
  /\ conn[c] = "none"
  /\ conn' = [conn EXCEPT ![c] = "open"]
  /\ Install(c, [St(c) EXCEPT !.streams = <<>>])
  /\ UNCHANGED <<outbox, delivered>>

Message(c, msg) ==
  /\ conn[c] = "open"
  /\ IF Throws(msg)
     THEN Crash
     ELSE LET st == onMessage(St(c), msg)
          IN /\ Len(st.pumps) <= MaxPumps
             /\ Install(c, st)
             /\ UNCHANGED conn
  /\ UNCHANGED <<outbox, delivered>>

\* the receiver of the socket fails (a frame that violates the protocol):
\* the ws library emits 'error' on ws, which has no 'error' listener, so the
\* emit throws
SocketError(c) ==
  /\ conn[c] = "open"
  /\ Crash
  /\ UNCHANGED <<outbox, delivered>>

Close(c) ==
  /\ conn[c] = "open"
  /\ conn' = [conn EXCEPT ![c] = "closed"]
  /\ Install(c, closeHandler(St(c)))
  /\ UNCHANGED <<outbox, delivered>>

\* ------------------------------------------------------------ pump steps
\* what the upstream may deliver as one chunk: a whole frame with an event
\* line, and a frame cut before its blank line
Chunks ==
  { EventMarker \o <<"o", NL>> \o DataMarker \o <<"1", NL, NL>>,
    DataMarker \o <<"2", NL>> }

\* variant: the cleanup empties the table
finallyClearTable(st, p) == [st EXCEPT !.streams = <<>>, !.pumps[p] = Done]

\* variant: the cleanup opens the upstream request again
finallyRetry(st, p) ==
  LET st1 == Delete(st, st.pumps[p].chatId)
  IN attachSSE([st1 EXCEPT !.pumps[p] = Done], st.pumps[p].chatId, TRUE)

\* the finally block of attachSSE, lines 56-58, and the end of the invocation
finally(st, p) ==
  LET st1 == Delete(st, st.pumps[p].chatId)
  IN [st1 EXCEPT !.pumps[p] = Done]

\* variant: chunks already in the body are still read after the abort
CanReadBuffered(pump) == pump.pc = "read" /\ pump.queue # <<>>

\* the pump can take a chunk from res.body: the request was not aborted
CanRead(pump) == pump.pc = "read" /\ ~pump.aborted /\ pump.queue # <<>>

\* variant: the frames of one chunk are forwarded last frame first
RECURSIVE EnvelopesNewestFirst(_, _)
EnvelopesNewestFirst(chatId, frames) ==
  IF frames = <<>> THEN <<>>
  ELSE LET evt == parseFrame(frames[Len(frames)])
       IN (IF evt = Null THEN <<>>
           ELSE <<[type |-> "event", chatId |-> chatId,
                   event |-> evt.event, payload |-> evt.payload]>>)
          \o EnvelopesNewestFirst(chatId, SubSeq(frames, 1, Len(frames) - 1))

\* variant: a frame that parseFrame rejects ends the loop over the frames of
\* its chunk
RECURSIVE EnvelopesUntilNull(_, _)
EnvelopesUntilNull(chatId, frames) ==
  IF frames = <<>> THEN <<>>
  ELSE LET evt == parseFrame(Head(frames))
       IN IF evt = Null THEN <<>>
          ELSE <<[type |-> "event", chatId |-> chatId,
                  event |-> evt.event, payload |-> evt.payload]>>
               \o EnvelopesUntilNull(chatId, Tail(frames))

\* the envelopes of the frames of one chunk: lines 48-52
RECURSIVE Envelopes(_, _)
Envelopes(chatId, frames) ==
  IF frames = <<>> THEN <<>>
  ELSE LET evt == parseFrame(Head(frames))
       IN (IF evt = Null THEN <<>>
           ELSE <<[type |-> "event", chatId |-> chatId,
                   event |-> evt.event, payload |-> evt.payload]>>)
          \o Envelopes(chatId, Tail(frames))

\* await fetch(...) resolves with a response that has a body: lines 40-43
FetchResolve(c, p) ==
  /\ pumps[c][p].pc = "fetch"
  /\ ~pumps[c][p].aborted
  /\ Install(c, [St(c) EXCEPT !.pumps[p].pc = "read"])
  /\ UNCHANGED <<conn, outbox, delivered>>

\* the response has no body: line 41
FetchNoBody(c, p) ==
  /\ pumps[c][p].pc = "fetch"
  /\ ~pumps[c][p].aborted
  /\ Install(c, finally(St(c), p))
  /\ UNCHANGED <<conn, outbox, delivered>>

\* the request fails before the response: the catch of line 54
FetchError(c, p) ==
  /\ pumps[c][p].pc = "fetch"
  /\ ~pumps[c][p].aborted
  /\ Install(c, finally(St(c), p))
  /\ UNCHANGED <<conn, outbox, delivered>>

\* the upstream delivers a chunk into the body of the response
UpstreamChunk(c, p, chunk) ==
  /\ pumps[c][p].pc = "read"
  /\ ~pumps[c][p].aborted
  /\ delivered' = [delivered EXCEPT ![c] = @ + 1]
  /\ Install(c, [St(c) EXCEPT !.pumps[p].sent = @ \o chunk,
                              !.pumps[p].queue = Append(@, chunk)])
  /\ UNCHANGED <<conn, outbox>>

\* one turn of the read loop on an open client socket: lines 44-53
ReadChunk(c, p) ==
  /\ CanRead(pumps[c][p])
  /\ conn[c] = "open"
  /\ LET pump == pumps[c][p]
         parsed == parseSSEFrames(pump.buf \o Head(pump.queue))
     IN /\ Install(c, [St(c) EXCEPT !.pumps[p].queue = Tail(@),
                                    !.pumps[p].buf = parsed.buffer])
        /\ outbox' = [outbox EXCEPT ![c] = @ \o Envelopes(pump.chatId, parsed.frames)]
  /\ UNCHANGED <<conn, delivered>>

\* one turn of the read loop after the client socket closed: ws.send of a
\* closed socket either drops the data or throws, depending on the ws
\* version; a throw leaves the loop through the catch of line 54
ReadChunkClosed(c, p, throws) ==
  /\ CanRead(pumps[c][p])
  /\ conn[c] = "closed"
  /\ LET pump == pumps[c][p]
         parsed == parseSSEFrames(pump.buf \o Head(pump.queue))
     IN IF throws /\ Envelopes(pump.chatId, parsed.frames) # <<>>
        THEN Install(c, finally(St(c), p))
        ELSE Install(c, [St(c) EXCEPT !.pumps[p].queue = Tail(@),
                                      !.pumps[p].buf = parsed.buffer])
  /\ UNCHANGED <<conn, outbox, delivered>>

\* variant: at the end of the stream what is left in buf is taken as a last
\* frame
UpstreamEndFlush(c, p) ==
  /\ pumps[c][p].pc = "read"
  /\ ~pumps[c][p].aborted
  /\ pumps[c][p].queue = <<>>
  /\ outbox' = [outbox EXCEPT ![c] = @ \o Envelopes(pumps[c][p].chatId, <<pumps[c][p].buf>>)]
  /\ Install(c, finally(St(c), p))
  /\ UNCHANGED <<conn, delivered>>

\* the upstream closes the response: the loop of line 44 ends
UpstreamEnd(c, p) ==
  /\ pumps[c][p].pc = "read"
  /\ ~pumps[c][p].aborted
  /\ pumps[c][p].queue = <<>>
  /\ Install(c, finally(St(c), p))
  /\ UNCHANGED <<conn, outbox, delivered>>

\* the upstream fails: the body errors, its queue is dropped, the read rejects
UpstreamError(c, p) ==
  /\ pumps[c][p].pc = "read"
  /\ ~pumps[c][p].aborted
  /\ Install(c, finally(St(c), p))
  /\ UNCHANGED <<conn, outbox, delivered>>

\* variant: the abort signal reaches the read of the body only, not the
\* request that is still being opened
AbortedWhileReading(c, p) ==
  /\ pumps[c][p].pc = "read"
  /\ pumps[c][p].aborted
  /\ Install(c, finally(St(c), p))
  /\ UNCHANGED <<conn, outbox, delivered>>

\* the abort signal rejects the pending fetch or read: catch, then finally
Aborted(c, p) ==
  /\ Live(pumps[c][p])
  /\ pumps[c][p].aborted
  /\ Install(c, finally(St(c), p))
  /\ UNCHANGED <<conn, outbox, delivered>>

Next ==
  \/ \E c \in Single : Connection(c) /\ NoClient
  \/ \E c \in Single, msg \in Inbound : Message(c, msg) /\ NoClient
  \/ \E c \in Single : SocketError(c) /\ NoClient
  \/ \E c \in Single : Close(c) /\ NoClient
  \/ \E c \in Single : \E p \in PumpIds(c) : FetchResolve(c, p) /\ NoClient
  \/ \E c \in Single : \E p \in PumpIds(c) : FetchNoBody(c, p) /\ NoClient
  \/ \E c \in Single : \E p \in PumpIds(c) : FetchError(c, p) /\ NoClient
  \/ \E c \in Single : \E p \in PumpIds(c) : \E chunk \in Chunks :
        delivered[c] < MaxChunks /\ UpstreamChunk(c, p, chunk) /\ NoClient
  \/ \E c \in Single : \E p \in PumpIds(c) : ReadChunk(c, p) /\ NoClient
  \/ \E c \in Single : \E p \in PumpIds(c) : \E throws \in BOOLEAN : ReadChunkClosed(c, p, throws) /\ NoClient
  \/ \E c \in Single : \E p \in PumpIds(c) : UpstreamEnd(c, p) /\ NoClient
  \/ \E c \in Single : \E p \in PumpIds(c) : UpstreamError(c, p) /\ NoClient
  \/ \E c \in Single : \E p \in PumpIds(c) : Aborted(c, p) /\ NoClient

Spec == Init /\ [][Next]_vars

\* The rejection of an aborted fetch or read is a job of the event loop: once
\* queued it is run, whatever else the process has to do.
AbortedJob(c, p) == p \in PumpIds(c) /\ Aborted(c, p) /\ NoClient

FairSpec ==
  Spec /\ \A c \in Conns : \A p \in 1..MaxPumps : WF_vars(AbortedJob(c, p))

\* ------------------------------------------------- the data path in detail
\* A second specification: one subscribeMany for both ids, then the
\* upstreams write fixed texts, cut into chunks at arbitrary places, while
\* the pumps read.  The texts are built from frame descriptions.
MaxPieces == 3    \* chunks the upstreams cut their texts into, per connection

NoEvent == <<>>

\* the frames the backend writes for a chat: an event line when the frame is
\* named, one data line, the blank line
ScriptFrames(x) ==
  IF x = "a"
  THEN << [event |-> <<"o">>, data |-> <<"1">>],
          [event |-> NoEvent, data |-> <<"2">>] >>
  ELSE << [event |-> NoEvent, data |-> <<"x">>],
          [event |-> <<"o">>, data |-> <<>>],
          [event |-> NoEvent, data |-> <<SP>>],
          [event |-> NoEvent, data |-> <<"0", "1">>],
          [event |-> NoEvent, data |-> <<"3">>] >>

EncodeFrame(d) ==
  (IF d.event = NoEvent THEN <<>> ELSE EventMarker \o d.event \o <<NL>>)
  \o DataMarker \o d.data \o <<NL, NL>>

RECURSIVE EncodeFrames(_)
EncodeFrames(ds) ==
  IF ds = <<>> THEN <<>> ELSE EncodeFrame(Head(ds)) \o EncodeFrames(Tail(ds))

Script(x) == EncodeFrames(ScriptFrames(x))

PumpSubscribe == [type |-> "subscribeMany", chatIds |-> <<"a", "b">>, replay |-> TRUE]

\* the sizes of the chunks of a text: the text of "a" is cut anywhere, the
\* text of "b" arrives whole or cut before its last frame
PieceSizes(x) ==
  IF x = "a" THEN 1..Len(Script(x))
  ELSE LET last == Len(EncodeFrame(ScriptFrames(x)[Len(ScriptFrames(x))]))
       IN {Len(Script(x)), Len(Script(x)) - last, last}

\* the upstream of pump p writes the next n characters of its text
UpstreamPiece(c, p, n) ==
  LET text == Script(pumps[c][p].chatId)
      pos == Len(pumps[c][p].sent)
  IN /\ Live(pumps[c][p])
     /\ n \in PieceSizes(pumps[c][p].chatId)
     /\ pos + n <= Len(text)
     /\ delivered[c] < MaxPieces
     /\ UpstreamChunk(c, p, SubSeq(text, pos + 1, pos + n))

\* the upstream closes the response after the last character of its text
UpstreamDone(c, p) ==
  /\ Live(pumps[c][p])
  /\ pumps[c][p].sent = Script(pumps[c][p].chatId)
  /\ UpstreamEnd(c, p)

PumpNext ==
  \/ \E c \in Single : Connection(c) /\ NoClient
  \/ \E c \in Single : pumps[c] = <<>> /\ Message(c, PumpSubscribe) /\ NoClient
  \/ \E c \in Single : \E p \in PumpIds(c) : FetchResolve(c, p) /\ NoClient
  \/ \E c \in Single : \E p \in PumpIds(c) : \E n \in 1..Len(Script("b")) : UpstreamPiece(c, p, n) /\ NoClient
  \/ \E c \in Single : \E p \in PumpIds(c) : ReadChunk(c, p) /\ NoClient
  \/ \E c \in Single : \E p \in PumpIds(c) : UpstreamDone(c, p) /\ NoClient
  \/ \E c \in Single : \E p \in PumpIds(c) : UpstreamError(c, p) /\ NoClient
  \/ \E c \in Single : \E p \in PumpIds(c) : FetchError(c, p) /\ NoClient

PumpSpec == Init /\ [][PumpNext]_vars


\* ================================================================ claims
ActiveOn(c, x) == {p \in PumpIds(c) : Active(pumps[c][p]) /\ pumps[c][p].chatId = x}
ActivePumps(c) == {p \in PumpIds(c) : Active(pumps[c][p])}
Registered(c, p) == Live(pumps[c][p]) /\ CtrlOf(streams[c], pumps[c][p].chatId) = p
\* the positions of the calls of kind k on pump p in a handler's calls
Calls(ev, k, p) == {i \in 1..Len(ev) : ev[i].k = k /\ ev[i].p = p}
CallsOfKind(ev, k) == {i \in 1..Len(ev) : ev[i].k = k}
\* the pumps a step has started
Started(c) == (Len(pumps[c]) + 1)..Len(pumps'[c])

\* C1: on one connection there are never two active pumps (started, not
\* cancelled, not terminated) for the same session id.
C1_AtMostOneActivePump ==
  \A c \in Conns : \A x \in Ids : Cardinality(ActiveOn(c, x)) <= 1

\* C2: after the close teardown of a connection no pump started on it is
\* still active.
C2_NoActivePumpAfterClose ==
  \A c \in Conns : conn[c] = "closed" => ActivePumps(c) = {}

\* C3: the cleanup of a terminating pump leaves the table entry of its
\* session id in place when that entry belongs to a newer pump.
C3_CleanupKeepsNewerEntry ==
  [][\A c \in Conns : \A p \in PumpIds(c) :
       (Live(pumps[c][p]) /\ p \in DOMAIN pumps'[c] /\ pumps'[c][p].pc = "done")
       => LET x == pumps[c][p].chatId
              q == CtrlOf(streams[c], x)
          IN (q # 0 /\ q # p) => CtrlOf(streams'[c], x) = q]_vars


\* C4: a subscribe for x processed while a pump for x is active signals
\* exactly one cancellation, to that pump, before the new pump is created,
\* and creates and registers exactly one new pump for x.
C4_ResubscribeCancelsThenCreates ==
  [][\A c \in Conns : \A msg \in SubscribeMsgs :
       (Truthy(msg.chatId) /\ ActiveOn(c, msg.chatId) # {} /\ Message(c, msg))
       => LET x == msg.chatId
              ev == onMessage(St(c), msg).ev
              sets == {i \in CallsOfKind(ev, "set") : ev[i].id = x}
          IN /\ Cardinality(CallsOfKind(ev, "abort")) = 1
             /\ \A q \in ActiveOn(c, x) :
                  /\ Cardinality(Calls(ev, "abort", q)) = 1
                  /\ \A i \in Calls(ev, "abort", q) : \A j \in sets : i < j
             /\ Cardinality(sets) = 1
             /\ Cardinality(Started(c)) = 1
             /\ CtrlOf(streams'[c], x) = Len(pumps'[c])
             /\ pumps'[c][Len(pumps'[c])].chatId = x]_vars

\* C5: subscribeMany(S, replay) signals cancellation to, and removes the
\* entry of, exactly the ids that are in the table and not in S; an id in
\* the table and in S gets no cancellation and keeps its pump, untouched.
\* Stated of the handler's result st in every reachable state of an open
\* connection, for every subscribeMany message.
C5_SubscribeManyDropsExactlyRemoved ==
  \A c \in Conns : \A msg \in SubscribeManyMsgs :
    conn[c] = "open"
    => LET S == Elems(msg.chatIds)
           T == MapKeys(streams[c])
           st == onMessage(St(c), msg)
           gone == {CtrlOf(streams[c], x) : x \in T \ S}
       IN /\ {st.ev[i].p : i \in CallsOfKind(st.ev, "abort")} = gone
          /\ \A p \in gone : Cardinality(Calls(st.ev, "abort", p)) = 1
          /\ {st.ev[i].id : i \in CallsOfKind(st.ev, "delete")} = T \ S
          /\ {p \in PumpIds(c) : ~pumps[c][p].aborted /\ st.pumps[p].aborted} = gone
          /\ \A x \in T \ S : ~MapHas(st.streams, x)
          /\ \A x \in T \cap S :
               /\ MapHas(st.streams, x)
               /\ MapGet(st.streams, x) = MapGet(streams[c], x)
               /\ st.pumps[CtrlOf(streams[c], x)] = pumps[c][CtrlOf(streams[c], x)]
               /\ Active(st.pumps[CtrlOf(streams[c], x)])

\* two pumps were started, the first is still registered and active, the
\* second is cancelled and unregistered: a subscribeMany kept one, dropped one
C5_Witness ==
  \E c \in Conns :
    /\ conn[c] = "open"
    /\ Len(pumps[c]) = 2
    /\ Active(pumps[c][1]) /\ Registered(c, 1)
    /\ Live(pumps[c][2]) /\ pumps[c][2].aborted
    /\ ~MapHas(streams[c], pumps[c][2].chatId)

\* C6: subscribeMany(S, replay) starts exactly one new pump for each session
\* id of S that had no table entry, none for any other id, and each new pump
\* requests replay=1 iff the message's replay flag is true, else replay=0.
\* Stated of the handler's result st in every reachable state of an open
\* connection, for every subscribeMany message.
C6_SubscribeManyStartsMissing ==
  \A c \in Conns : \A msg \in SubscribeManyMsgs :
    conn[c] = "open"
    => LET S == Elems(msg.chatIds) \cap Ids
           T == MapKeys(streams[c])
           st == onMessage(St(c), msg)
           started == (Len(pumps[c]) + 1)..Len(st.pumps)
       IN /\ {st.pumps[p].chatId : p \in started} = S \ T
          /\ Cardinality(started) = Cardinality(S \ T)
          /\ \A p \in started :
               /\ st.pumps[p].pc = "fetch"
               /\ st.pumps[p].flag = (IF msg.replay THEN "1" ELSE "0")
               /\ st.pumps[p].queue = <<>>
               /\ CtrlOf(st.streams, st.pumps[p].chatId) = p
          /\ \A i \in CallsOfKind(st.ev, "fetch") : st.ev[i].p \in started
          /\ \A p \in started : Cardinality(Calls(st.ev, "fetch", p)) = 1

\* one subscribeMany has started two pumps that request replay=0
C6_Witness ==
  \E c \in Conns :
    /\ Len(pumps[c]) = 2
    /\ \A p \in {1, 2} : pumps[c][p].pc = "fetch" /\ pumps[c][p].flag = "0" /\ Registered(c, p)
    /\ pumps[c][1].chatId # pumps[c][2].chatId

\* C7: a subscribe message {chatId, replay} starts its pump with the replay
\* flag of the message: replay=1 when it is true, replay=0 when it is false.
C7_SubscribeUsesReplayOfMessage ==
  [][\A c \in Conns : \A msg \in SubscribeMsgs :
       (Truthy(msg.chatId) /\ Message(c, msg))
       => /\ Started(c) # {}
          /\ \A p \in Started(c) :
               pumps'[c][p].flag = (IF msg.replay THEN "1" ELSE "0")]_vars

\* C8: closing a connection with K active pumps signals exactly K
\* cancellations, one per active pump, and leaves the table empty.
C8_CloseCancelsEveryActivePump ==
  [][\A c \in Conns :
       Close(c)
       => LET ev == closeHandler(St(c)).ev
          IN /\ Cardinality(CallsOfKind(ev, "abort")) = Cardinality(ActivePumps(c))
             /\ \A p \in ActivePumps(c) : Cardinality(Calls(ev, "abort", p)) = 1
             /\ streams'[c] = <<>>]_vars

\* the calls of a manager operation are in order when every pump whose
\* entry is deleted, cleared or overwritten was aborted earlier in the
\* calls, exactly once, and not afterwards
Removals(ev) ==
  {i \in 1..Len(ev) : (ev[i].k \in {"delete", "clear"} /\ ev[i].p # 0)
                      \/ (ev[i].k = "set" /\ ev[i].old # 0)}
RemovedPump(e) == IF e.k = "set" THEN e.old ELSE e.p
CancelFirst(ev) ==
  \A i \in Removals(ev) :
    LET p == RemovedPump(ev[i])
    IN /\ \E j \in Calls(ev, "abort", p) : j < i
       /\ Cardinality(Calls(ev, "abort", p)) = 1

\* C9: in subscribe, subscribeMany and the close teardown, a pump whose
\* table entry is overwritten or deleted was signalled its cancellation
\* earlier in the same operation and never afterwards, so that after the
\* operation no replaced or removed pump is uncancelled.  Stated of the
\* calls and the result of each manager operation in every reachable state
\* of an open connection.
C9_CancelBeforeUnregister ==
  \A c \in Conns :
    conn[c] = "open"
    => \A st \in {onMessage(St(c), msg) : msg \in Messages} \cup {closeHandler(St(c))} :
         /\ CancelFirst(st.ev)
         /\ \A i \in Removals(st.ev) : st.pumps[RemovedPump(st.ev[i])].aborted
         /\ \A p \in PumpIds(c) :
              (MapHas(streams[c], pumps[c][p].chatId)
               /\ CtrlOf(streams[c], pumps[c][p].chatId) = p
               /\ CtrlOf(st.streams, pumps[c][p].chatId) # p)
              => st.pumps[p].aborted /\ ~pumps[c][p].aborted

\* a subscribe has replaced the pump of its id: the old pump is cancelled
\* and not yet terminated, the new one is registered
C9_Witness ==
  \E c \in Conns :
    /\ Len(pumps[c]) = 2
    /\ Live(pumps[c][1]) /\ pumps[c][1].aborted
    /\ pumps[c][2].chatId = pumps[c][1].chatId
    /\ Active(pumps[c][2]) /\ Registered(c, 2)

\* C10: a pump whose cancellation has been signalled takes no further turn
\* of its read loop, also with chunks waiting in its body, and every
\* envelope written comes from a turn of a pump that is not cancelled.
C10_NoEnvelopeAfterCancel ==
  [][\A c \in Conns :
       /\ \A p \in PumpIds(c) :
            pumps[c][p].aborted
            => /\ ~ReadChunk(c, p)
               /\ \A throws \in BOOLEAN : ~ReadChunkClosed(c, p, throws)
       /\ outbox'[c] # outbox[c]
            => \E p \in PumpIds(c) : ~pumps[c][p].aborted /\ ReadChunk(c, p)]_vars

\* a pump was cancelled while a delivered chunk waited in its body
C10_Witness ==
  \E c \in Conns : \E p \in PumpIds(c) :
    /\ pumps[c][p].aborted
    /\ pumps[c][p].pc = "read"
    /\ pumps[c][p].queue # <<>>


\* ------------------------------------------------- claims of the data path
RECURSIVE Flatten(_)
Flatten(q) == IF q = <<>> THEN <<>> ELSE Head(q) \o Flatten(Tail(q))

\* the part of the upstream text the read loop of a pump has taken so far
Consumed(pump) == SubSeq(pump.sent, 1, Len(pump.sent) - Len(Flatten(pump.queue)))
\* the envelopes for chat x among those written to the client, in order
Written(c, x) == SelectSeq(outbox[c], LAMBDA e : e.chatId = x)
\* the frames of a text that parseFrame accepts, in the order of the text
Accepted(text) == SelectSeq(parseSSEFrames(text).frames, LAMBDA f : parseFrame(f) # Null)
InOrder(x, text) ==
  [i \in 1..Len(Accepted(text)) |->
     [type |-> "event", chatId |-> x,
      event |-> parseFrame(Accepted(text)[i]).event,
      payload |-> parseFrame(Accepted(text)[i]).payload]]

\* C11: the envelopes a pump has written are those of the frames of the
\* upstream text it has read, in the order of the frames in that text,
\* whatever the other pump of the connection wrote in between.
C11_EnvelopesInStreamOrder ==
  \A c \in Conns : \A p \in PumpIds(c) :
    Live(pumps[c][p])
    => Written(c, pumps[c][p].chatId) = InOrder(pumps[c][p].chatId, Consumed(pumps[c][p]))

\* both envelopes of pump "a" are written, the first before and the second
\* after the envelope of pump "b", and the frames came in different chunks
C11_Witness ==
  \E c \in Conns : \E p \in PumpIds(c) :
    /\ Live(pumps[c][p]) /\ pumps[c][p].chatId = "a"
    /\ Len(outbox[c]) = 3
    /\ outbox[c][1].chatId = "a" /\ outbox[c][2].chatId = "b" /\ outbox[c][3].chatId = "a"
    /\ outbox[c][1].payload = <<"1">> /\ outbox[c][3].payload = <<"2">>

\* a frame description is well formed: its data is not empty and is JSON
WellFormed(d) == d.data # <<>> /\ JsonValid(d.data)
\* how many frames of the description list ds lie wholly in the first n
\* characters of their text
Complete(ds, n) ==
  CHOOSE k \in 0..Len(ds) :
    /\ Len(EncodeFrames(SubSeq(ds, 1, k))) <= n
    /\ (k < Len(ds) => Len(EncodeFrames(SubSeq(ds, 1, k + 1))) > n)
EnvelopeOf(x, d) ==
  [type |-> "event", chatId |-> x,
   event |-> IF d.event = NoEvent THEN DefaultEvent ELSE d.event,
   payload |-> d.data]
Forwarded(x, ds) ==
  LET wf == SelectSeq(ds, WellFormed)
  IN [i \in 1..Len(wf) |-> EnvelopeOf(x, wf[i])]

\* C12: for a pump on x that is not cancelled, the envelopes written for x
\* are exactly one per well-formed frame the upstream has delivered and the
\* pump has read, each with chatId x, the event name of the frame or
\* 'message', and the data of the frame as payload; nothing else is written
\* for x.
C12_WellFormedFrameForwardedOnce ==
  \A c \in Conns : \A p \in PumpIds(c) :
    Active(pumps[c][p])
    => LET x == pumps[c][p].chatId
           ds == ScriptFrames(x)
       IN Written(c, x) = Forwarded(x, SubSeq(ds, 1, Complete(ds, Len(Consumed(pumps[c][p])))))

\* pump "a" has read its two frames, cut into three chunks, and both
\* envelopes are written: the named one and the one named 'message'
C12_Witness ==
  \E c \in Conns : \E p \in PumpIds(c) :
    /\ Active(pumps[c][p]) /\ pumps[c][p].chatId = "a"
    /\ delivered[c] = 3 /\ pumps[c][p].queue = <<>>
    /\ Written(c, "a") = << [type |-> "event", chatId |-> "a", event |-> <<"o">>, payload |-> <<"1">>],
                            [type |-> "event", chatId |-> "a", event |-> DefaultEvent, payload |-> <<"2">>] >>

\* the frames the read loop takes from the chunks of a queue, in order,
\* starting with buf: lines 44-47 turn after turn
RECURSIVE FeedChunks(_, _)
FeedChunks(buf, chunks) ==
  IF chunks = <<>> THEN <<>>
  ELSE LET parsed == parseSSEFrames(buf \o Head(chunks))
       IN parsed.frames \o FeedChunks(parsed.buffer, Tail(chunks))

\* C13: however a text is cut into chunks, feeding the chunks one after the
\* other through buf and parseSSEFrames yields the frames that the whole
\* text yields as one chunk, in the same order.  Stated of every pump at
\* every point of its text: for what is left in buf and the chunks waiting.
C13_ChunkingDoesNotChangeFrames ==
  \A c \in Conns : \A p \in PumpIds(c) :
    pumps[c][p].pc = "read"
    => FeedChunks(pumps[c][p].buf, pumps[c][p].queue)
       = parseSSEFrames(pumps[c][p].buf \o Flatten(pumps[c][p].queue)).frames

\* the text of two well-formed frames was cut inside the data marker and
\* inside the blank-line boundary; the first chunk is read, the other two wait
C13_Witness ==
  \E c \in Conns : \E p \in PumpIds(c) :
    LET pump == pumps[c][p]
    IN /\ pump.pc = "read" /\ pump.sent = Script("a")
       /\ Len(pump.queue) = 2
       /\ pump.buf # <<>> /\ ~StartsWith(DataMarker, pump.buf)
       /\ \E k \in 1..(Len(DataMarker) - 1) :
            pump.buf = EventMarker \o <<"o", NL>> \o SubSeq(DataMarker, 1, k)
       /\ pump.queue[1][Len(pump.queue[1])] = NL
       /\ pump.queue[2][1] = NL
       /\ Len(parseSSEFrames(pump.sent).frames) = 2

\* the text of a frame as parseSSEFrames hands it to parseFrame
FrameBody(d) == SubSeq(EncodeFrame(d), 1, Len(EncodeFrame(d)) - 2)
\* the frames of the text of x that end in the chunk the pump reads next
ReadNext(pump) ==
  LET ds == ScriptFrames(pump.chatId)
      n == Len(Consumed(pump))
  IN SubSeq(ds, Complete(ds, n) + 1, Complete(ds, n + Len(Head(pump.queue))))

\* C14: parseFrame returns null for a frame whose data is empty and for a
\* frame whose data is not JSON; the read-loop turn that meets such a frame
\* (the pump has one chunk less to read of the same upstream text) writes no
\* envelope for it and the pump goes on reading: no error leaves parseFrame.
C14_MalformedFrameYieldsNothing ==
  [][\A c \in Conns : \A p \in PumpIds(c) :
       (/\ CanRead(pumps[c][p])
        /\ pumps'[c][p].sent = pumps[c][p].sent
        /\ pumps'[c][p].queue = Tail(pumps[c][p].queue))
       => LET ds == ReadNext(pumps[c][p])
          IN /\ \A i \in 1..Len(ds) :
                  ~WellFormed(ds[i]) => parseFrame(FrameBody(ds[i])) = Null
             /\ outbox'[c] = outbox[c] \o Forwarded(pumps[c][p].chatId, ds)
             /\ pumps'[c][p].pc = "read"]_vars

\* pump "b" has read its text: of its five frames the four without usable
\* data left nothing in the outbox, the pump is still reading
C14_Witness ==
  \E c \in Conns : \E p \in PumpIds(c) :
    /\ pumps[c][p].pc = "read" /\ pumps[c][p].chatId = "b"
    /\ Consumed(pumps[c][p]) = Script("b")
    /\ Len(parseSSEFrames(Script("b")).frames) = 5
    /\ Written(c, "b") = << [type |-> "event", chatId |-> "b", event |-> DefaultEvent, payload |-> <<"3">>] >>


\* ------------------------------------------ claims of the control channel
\* the handler leaves the connection as it found it: no call on a
\* controller, the table or the upstream, same table, same pumps, no throw
Ignored(c, msg) ==
  /\ ~Throws(msg)
  /\ LET st == onMessage(St(c), msg)
     IN st.ev = <<>> /\ st.streams = streams[c] /\ st.pumps = pumps[c]

\* C15: a malformed control message (not JSON, JSON that is not an object,
\* subscribe with a missing or non-string chatId, subscribeMany with a
\* missing or non-array chatIds or with non-string elements) is ignored: no
\* cancellation, no new pump, the table unchanged.  (The handler writes
\* nothing to the client in any case.)
C15_MalformedMessageIgnored ==
  \A c \in Conns : conn[c] = "open" => \A msg \in Malformed : Ignored(c, msg)

\* C16: a JSON object whose type is neither 'subscribe' nor 'subscribeMany'
\* is ignored: table, pumps and connection are as before.
C16_UnknownTypeIgnored ==
  \A c \in Conns : conn[c] = "open" => \A msg \in OtherMsgs : Ignored(c, msg)

\* an open connection with two registered, active pumps, one of them with a
\* chunk to read: there is something a message of another type could disturb
C16_Witness ==
  \E c \in Conns :
    /\ conn[c] = "open"
    /\ Len(streams[c]) = 2
    /\ \A p \in PumpIds(c) : Registered(c, p) /\ Active(pumps[c][p])
    /\ \E p \in PumpIds(c) : pumps[c][p].pc = "read" /\ pumps[c][p].queue # <<>>
    /\ outbox[c] = <<>>

\* C17: the process never ends through an exception of a handler: not by a
\* control message, an upstream event, a disconnect or a socket error.
C17_NoCrash == \A c \in Conns : conn[c] # "crashed"

\* C19: a connection leaves the open state through the teardown only, and
\* the teardown signals each registered pump exactly once, signals no pump
\* that was signalled before, and empties the table; after it no pump of
\* the connection is signalled again.
C19_TeardownOncePerDisconnect ==
  [][\A c \in Conns :
       /\ (conn[c] = "open" /\ conn'[c] # "open")
          => /\ conn'[c] = "closed"
             /\ streams'[c] = <<>>
             /\ LET ev == closeHandler(St(c)).ev
                IN /\ \A i \in 1..Len(streams[c]) :
                        /\ Cardinality(Calls(ev, "abort", streams[c][i].ctrl)) = 1
                        /\ pumps'[c][streams[c][i].ctrl].aborted
                   /\ \A i \in CallsOfKind(ev, "abort") : ~pumps[c][ev[i].p].aborted
       /\ conn[c] = "closed"
          => \A p \in PumpIds(c) : pumps'[c][p].aborted => pumps[c][p].aborted]_vars


\* ------------------------------------------------ claims of the pump's end
\* C18: when a registered, uncancelled pump terminates because its upstream
\* ended or failed, the entry of its session id leaves the table, every
\* other entry stays, every other pump is as before (not cancelled, at the
\* same point of its loop, with the same chunks to forward), the connection
\* stays open and nothing is written.
C18_UpstreamEndStopsOnlyThatPump ==
  [][\A c \in Conns : \A p \in PumpIds(c) :
       (/\ Active(pumps[c][p]) /\ Registered(c, p)
        /\ p \in DOMAIN pumps'[c] /\ pumps'[c][p].pc = "done")
       => LET x == pumps[c][p].chatId
          IN /\ ~MapHas(streams'[c], x)
             /\ streams'[c] = MapDelete(streams[c], x)
             /\ \A q \in PumpIds(c) \ {p} : pumps'[c][q] = pumps[c][q]
             /\ conn'[c] = "open"
             /\ outbox'[c] = outbox[c]]_vars

\* the first pump has terminated (in this specification: its upstream ended
\* or failed); the second is registered, not cancelled, has written an
\* envelope and holds nothing unread; the connection is open
C18_Witness ==
  \E c \in Conns :
    /\ conn[c] = "open"
    /\ Len(pumps[c]) = 2
    /\ pumps[c][1].pc = "done"
    /\ Active(pumps[c][2]) /\ Registered(c, 2)
    /\ Len(streams[c]) = 1
    /\ Written(c, "a") = <<>>
    /\ Len(Written(c, "b")) = 1

\* the chat ids a control message names
Named(msg) ==
  IF HasField(msg, "chatIds") THEN Elems(MapString(msg.chatIds))
  ELSE IF HasField(msg, "chatId") THEN {String(msg.chatId)}
  ELSE {}

\* C20: an upstream request is opened only by the handling of a subscribe
\* or subscribeMany message that names its session id; the end of a pump
\* (end of stream, upstream error) opens none, so the id of an ended pump
\* has no request until a message names it again.
C20_NoRequestWithoutMessage ==
  [][\A c \in Conns :
       Len(pumps'[c]) > Len(pumps[c])
       => \E msg \in Inbound :
            /\ ~Throws(msg)
            /\ HasField(msg, "type") /\ msg.type \in {"subscribe", "subscribeMany"}
            /\ pumps'[c] = onMessage(St(c), msg).pumps
            /\ \A p \in Started(c) : pumps'[c][p].chatId \in Named(msg)]_vars

\* the upstream of the first pump failed before it wrote anything, the
\* second pump went on and read its text: two requests were opened, no more
C20_Witness ==
  \E c \in Conns :
    /\ conn[c] = "open"
    /\ Len(pumps[c]) = 2
    /\ pumps[c][1].pc = "done"
    /\ ~MapHas(streams[c], "a")
    /\ Written(c, "a") = <<>>
    /\ pumps[c][2].pc = "read" /\ Consumed(pumps[c][2]) = Script("b")


\* ------------------------------------------------- claims of cancellation
Cancelled(c, p) == p \in PumpIds(c) /\ Live(pumps[c][p]) /\ pumps[c][p].aborted
\* the invocation has returned through its finally, or the process has ended
Terminated(c, p) == p \notin PumpIds(c) \/ pumps[c][p].pc = "done"

\* C21: under fair scheduling every pump whose cancellation has been
\* signalled terminates, whether the signal came while the request was being
\* opened or while the pump waited for a chunk.
C21_CancelledPumpTerminates ==
  \A c \in Conns : \A p \in 1..MaxPumps : Cancelled(c, p) ~> Terminated(c, p)

\* two cancelled pumps that have not terminated yet: one was signalled while
\* it opened its request, one while it waited for the next chunk
C21_Witness ==
  \E c \in Conns : \E p, q \in PumpIds(c) :
    /\ Cancelled(c, p) /\ pumps[c][p].pc = "fetch"
    /\ Cancelled(c, q) /\ pumps[c][q].pc = "read"


\* --------------------------------------------- claims of the subscriptions
\* the handler made no call and left table and pumps as they were
Untouched(st, before) ==
  st.ev = <<>> /\ st.streams = before.streams /\ st.pumps = before.pumps

\* C22: subscribeMany(S, replay) processed when the keys of the table are
\* exactly S signals no cancellation, starts no pump and leaves the table
\* unchanged; so the same subscribeMany message processed a second time,
\* right after the first, changes nothing.
C22_SubscribeManyIdempotent ==
  \A c \in Conns : conn[c] = "open" =>
    \A msg \in SubscribeManyMsgs :
      LET once == [onMessage(St(c), msg) EXCEPT !.ev = <<>>]
      IN /\ MapKeys(streams[c]) = Elems(NextOf(msg.chatIds))
            => Untouched(onMessage(St(c), msg), St(c))
         /\ MapKeys(once.streams) = Elems(NextOf(msg.chatIds))
         /\ Untouched(onMessage(once, msg), once)

\* the table holds "a" and "b", each with the pump a subscribeMany without
\* replay started for it: a second subscribeMany for both finds its set
C22_Witness ==
  \E c \in Conns :
    /\ conn[c] = "open"
    /\ MapKeys(streams[c]) = {"a", "b"}
    /\ Len(pumps[c]) = 2
    /\ \A p \in PumpIds(c) : Registered(c, p) /\ Active(pumps[c][p]) /\ pumps[c][p].flag = "0"

\* ------------------------------------------------- the next-ui page, steps
\* src/next-ui/app/page.tsx.  The page keeps one WebSocket in wsRef and the
\* chat it subscribed to last in subscribedChatIdRef; both refs belong to the
\* component, not to a socket.
MaxSent == 3

NoGateway == UNCHANGED <<conn, streams, pumps, outbox, delivered, wire, app>>

\* subscribeToChat(chatId): lines 120-126
subscribeToChat(u, chatId) ==
  IF chatId = "" \/ u.cur = 0 THEN u
  ELSE IF u.socks[u.cur] # "open" THEN u
  ELSE IF u.subscribed = chatId THEN u
  ELSE [u EXCEPT !.sent[u.cur] = Append(@, chatId), !.subscribed = chatId]

\* the body of the effect of lines 257-285: new WebSocket, both refs set
NewSocket(u) ==
  [u EXCEPT !.socks = Append(@, "connecting"),
            !.sent = Append(@, <<>>),
            !.cur = Len(u.socks) + 1,
            !.subscribed = ""]

\* the cleanup of that effect, line 284: ws.close() on the socket it created
CloseSocket(u, i) ==
  [u EXCEPT !.socks[i] = IF @ = "closed" THEN @ ELSE "closing"]

\* The page is mounted: the effect runs.  A development build of React with
\* strict mode runs the cleanup and the effect a second time on the same
\* component, whose refs are kept; the configuration that decides it is not
\* part of the sources, so both builds are possible.
Mount(strict) ==
  /\ ui.socks = <<>>
  /\ ui' = IF strict THEN NewSocket(CloseSocket(NewSocket(ui), 1))
                     ELSE NewSocket(ui)
  /\ NoGateway

\* ws.onopen, lines 262-265; a socket closed while connecting never opens
Open(i) ==
  /\ i \in DOMAIN ui.socks
  /\ ui.socks[i] = "connecting"
  /\ ui' = subscribeToChat([ui EXCEPT !.socks[i] = "open"], ui.selected)
  /\ NoGateway

\* ws.onclose, lines 266-269: the close event of socket i, whether the page,
\* the gateway or the network closed it
CloseEvent(i) ==
  /\ i \in DOMAIN ui.socks
  /\ ui.socks[i] # "closed"
  /\ ui' = [ui EXCEPT !.socks[i] = "closed", !.subscribed = ""]
  /\ NoGateway

\* effectiveSelectedChatId changes to x: the effects of lines 190-192 and
\* 287-290 run, and the terminal effect (292-360) disposes the terminal of the
\* chat before and starts to initialise the one of x
Select(x) ==
  /\ ui.socks # <<>>
  /\ x # ui.selected
  /\ \A i \in DOMAIN ui.sent : Len(ui.sent[i]) < MaxSent
  /\ ui' = [subscribeToChat([ui EXCEPT !.selected = x], x) EXCEPT !.term = x]
  /\ NoGateway

\* the import of the terminal resolves: line 331
TermInit ==
  /\ ui.term # ""
  /\ ui' = [subscribeToChat(ui, ui.term) EXCEPT !.term = ""]
  /\ NoGateway

UiNext ==
  \/ \E strict \in BOOLEAN : Mount(strict)
  \/ \E i \in 1..2 : Open(i)
  \/ \E i \in 1..2 : CloseEvent(i)
  \/ \E x \in IdInputs : Select(x)
  \/ TermInit

UiSpec == Init /\ [][UiNext]_vars

\* C23: the page never sends subscribe x on a socket on which the subscribe
\* it sent last was for x too, whatever the order of the open and close
\* events of the old and the new socket, of the changes of the selection and
\* of the initialisation of the terminal.
C23_NoDuplicateSubscribe ==
  \A i \in DOMAIN ui.sent :
    \A k \in 1..(Len(ui.sent[i]) - 1) : ui.sent[i][k] # ui.sent[i][k + 1]

\* ------------------------------------------------ later claims of the pump
\* the well-formed frames of ds that come after its first malformed frame
AfterMalformed(ds) ==
  LET bad == {i \in 1..Len(ds) : ~WellFormed(ds[i])}
  IN IF bad = {} THEN <<>>
     ELSE LET k == CHOOSE i \in bad : \A j \in bad : i <= j
          IN SelectSeq(SubSeq(ds, k + 1, Len(ds)), WellFormed)

\* C24: a frame of the upstream with empty data or with data that is not
\* JSON does not end or disturb the pump that reads it: after the turn of
\* the read loop that met it the pump is still reading, not cancelled and
\* registered as before, the table and the other pumps are as before, and
\* every well-formed frame that follows it in the same stream is forwarded,
\* in the same chunk (first conjunct) or in a later one (second conjunct).
C24_MalformedFrameLeavesPump ==
  /\ [][\A c \in Conns : \A p \in PumpIds(c) :
          (/\ CanRead(pumps[c][p])
           /\ pumps'[c][p].sent = pumps[c][p].sent
           /\ pumps'[c][p].queue = Tail(pumps[c][p].queue)
           /\ AfterMalformed(ReadNext(pumps[c][p])) # ReadNext(pumps[c][p]))
          => LET x == pumps[c][p].chatId
                 later == AfterMalformed(ReadNext(pumps[c][p]))
             IN /\ streams'[c] = streams[c]
                /\ pumps'[c][p].pc = "read"
                /\ pumps'[c][p].aborted = pumps[c][p].aborted
                /\ pumps'[c][p].chatId = x
                /\ \A q \in PumpIds(c) \ {p} : pumps'[c][q] = pumps[c][q]
                /\ Len(outbox'[c]) >= Len(outbox[c]) + Len(later)
                /\ \A i \in 1..Len(later) :
                     outbox'[c][Len(outbox'[c]) - Len(later) + i] = EnvelopeOf(x, later[i])]_vars
  /\ [](\A c \in Conns : \A p \in PumpIds(c) :
          Active(pumps[c][p])
          => LET x == pumps[c][p].chatId
                 ds == ScriptFrames(x)
                 n == Complete(ds, Len(Consumed(pumps[c][p])))
             IN \A k, j \in 1..n :
                  (k < j /\ ~WellFormed(ds[k]) /\ WellFormed(ds[j]))
                  => \E i \in DOMAIN outbox[c] : outbox[c][i] = EnvelopeOf(x, ds[j]))

\* pump "b" has read the chunk with its four malformed frames and written
\* nothing; it is registered and not cancelled, and the chunk with its
\* well-formed frame waits to be read
C24_Witness ==
  \E c \in Conns : \E p \in PumpIds(c) :
    LET ds == ScriptFrames("b")
    IN /\ Active(pumps[c][p]) /\ Registered(c, p) /\ pumps[c][p].chatId = "b"
       /\ pumps[c][p].pc = "read"
       /\ Consumed(pumps[c][p]) = EncodeFrames(SubSeq(ds, 1, Len(ds) - 1))
       /\ \A i \in 1..(Len(ds) - 1) : ~WellFormed(ds[i])
       /\ pumps[c][p].queue = <<EncodeFrame(ds[Len(ds)])>>
       /\ WellFormed(ds[Len(ds)])
       /\ Written(c, "b") = <<>>

\* ------------------------------------------- frames of several lines
\* One pump reads one frame whose lines are chosen freely among event and
\* data lines: the inputs of parseFrame (lines 18-32) as the read loop hands
\* them over.
MaxFrameLines == 3

\* a line of a frame: an event line ("event:o", "event: p ") or a data line
FrameLine ==
  { [kind |-> "event", text |-> <<"o">>, pad |-> <<>>],
    [kind |-> "event", text |-> <<"p">>, pad |-> <<SP>>],
    [kind |-> "data", text |-> <<"1">>, pad |-> <<>>],
    [kind |-> "data", text |-> <<"2">>, pad |-> <<SP>>] }

FrameInputs == UNION {[1..n -> FrameLine] : n \in 1..MaxFrameLines}

EncodeLine(l) ==
  (IF l.kind = "event" THEN EventMarker ELSE DataMarker) \o l.pad \o l.text \o l.pad

RECURSIVE EncodeLines(_)
EncodeLines(ls) ==
  IF Len(ls) = 1 THEN EncodeLine(ls[1])
  ELSE EncodeLine(Head(ls)) \o <<NL>> \o EncodeLines(Tail(ls))

FrameSubscribe == [type |-> "subscribe", chatId |-> "a"]

\* the upstream of pump p writes one frame and its blank line
UpstreamFrame(c, p, ls) ==
  /\ pumps[c][p].sent = <<>>
  /\ UpstreamChunk(c, p, EncodeLines(ls) \o <<NL, NL>>)

FrameNext ==
  \/ \E c \in Single : Connection(c) /\ NoClient
  \/ \E c \in Single : pumps[c] = <<>> /\ Message(c, FrameSubscribe) /\ NoClient
  \/ \E c \in Single : \E p \in PumpIds(c) : FetchResolve(c, p) /\ NoClient
  \/ \E c \in Single : \E p \in PumpIds(c) : \E ls \in FrameInputs : UpstreamFrame(c, p, ls) /\ NoClient
  \/ \E c \in Single : \E p \in PumpIds(c) : ReadChunk(c, p) /\ NoClient

FrameSpec == Init /\ [][FrameNext]_vars

\* the name of the last event line of a frame, 'message' when it has none
LastEventName(ls) ==
  LET evs == {i \in 1..Len(ls) : ls[i].kind = "event"}
  IN IF evs = {} THEN DefaultEvent
     ELSE ls[CHOOSE i \in evs : \A j \in evs : j <= i].text

\* C25: the event name parseFrame returns is 'message' when the frame has no
\* event line and the name of its last event line when it has several,
\* wherever its data lines stand among them; the envelope the pump writes
\* for the frame carries that name.
C25_LastEventLineNamesFrame ==
  \A c \in Conns : \A p \in PumpIds(c) : \A ls \in FrameInputs :
    pumps[c][p].sent = EncodeLines(ls) \o <<NL, NL>>
    => /\ parseFrame(EncodeLines(ls)) # Null
          => parseFrame(EncodeLines(ls)).event = LastEventName(ls)
       /\ \A i \in DOMAIN outbox[c] : outbox[c][i].event = LastEventName(ls)
       /\ (pumps[c][p].queue = <<>> /\ \E i \in 1..Len(ls) : ls[i].kind = "data")
          => Len(outbox[c]) = 1

\* the frame "event:o", "data:1", "event: p " was read and forwarded as p:
\* two event lines, the last one after the data line
C25_Witness ==
  \E c \in Conns : \E p \in PumpIds(c) :
    /\ pumps[c][p].sent = EventMarker \o <<"o", NL>> \o DataMarker \o <<"1", NL>>
                            \o EventMarker \o <<SP, "p", SP, NL, NL>>
    /\ pumps[c][p].queue = <<>>
    /\ outbox[c] = <<[type |-> "event", chatId |-> "a", event |-> <<"p">>, payload |-> <<"1">>]>>

\* ------------------------------------------------------- two connections
\* Two browsers are connected to the gateway.  Each subscribes to a chat of
\* its own, so that an envelope on the wrong socket shows.
MaxIsoPumps == 2

IsoChat(c) == IF c = "c1" THEN "a" ELSE "b"

IsoMsgs(c) ==
  { [type |-> "subscribe", chatId |-> IsoChat(c), replay |-> TRUE],
    [type |-> "subscribeMany", chatIds |-> <<IsoChat(c)>>, replay |-> FALSE],
    [type |-> "subscribeMany", chatIds |-> <<>>, replay |-> FALSE],
    JsonNull }

IsoNext ==
  \/ \E c \in Conns : Connection(c) /\ NoClient
  \/ \E c \in Conns : \E msg \in IsoMsgs(c) :
        Message(c, msg) /\ Len(pumps'[c]) <= MaxIsoPumps /\ NoClient
  \/ \E c \in Conns : Close(c) /\ NoClient
  \/ \E c \in Conns : \E p \in PumpIds(c) : FetchResolve(c, p) /\ NoClient
  \/ \E c \in Conns : \E p \in PumpIds(c) : \E chunk \in Chunks :
        delivered[c] < MaxChunks /\ UpstreamChunk(c, p, chunk) /\ NoClient
  \/ \E c \in Conns : \E p \in PumpIds(c) : ReadChunk(c, p) /\ NoClient
  \/ \E c \in Conns : \E p \in PumpIds(c) : UpstreamEnd(c, p) /\ NoClient
  \/ \E c \in Conns : \E p \in PumpIds(c) : Aborted(c, p) /\ NoClient

IsoSpec == Init /\ [][IsoNext]_vars

\* what the gateway holds for connection c
Side(c) == <<conn[c], streams[c], pumps[c], outbox[c]>>

\* C26: connections are isolated.  Every step of the gateway (a control
\* message, the end of a pump, a close) belongs to one connection and leaves
\* the table, the pumps and the socket of every other connection as they
\* were; and an envelope is only ever written to the socket of the
\* connection whose pump read it.
C26_ConnectionsIsolated ==
  /\ [][\E a \in Conns : \A b \in Conns \ {a} :
          conn[b] # "none" => Side(b)' = Side(b)]_vars
  /\ [](\A c \in Conns : \A i \in DOMAIN outbox[c] : outbox[c][i].chatId = IsoChat(c))

\* ------------------------------------------- later claims of the table
\* C27: on an open connection every active pump is the pump registered in
\* the table under its own session id, so that a later subscribe,
\* subscribeMany or close can reach it.
C27_ActivePumpIsRegistered ==
  \A c \in Conns :
    conn[c] = "open" => \A p \in ActivePumps(c) : Registered(c, p)

\* C28: once subscribeMany(S, replay) is handled, the client gets no envelope
\* with a chatId outside S until a later control message subscribes that id
\* again, whatever was subscribed before.  Envelopes are written by pumps
\* that are not cancelled and pumps are started by control messages only, so
\* the handler must leave no pump outside S that is still active.
C28_SubscribeManySilencesTheRest ==
  \A c \in Conns : conn[c] = "open" =>
    \A msg \in SubscribeManyMsgs :
      LET st == onMessage(St(c), msg)
      IN \A p \in 1..Len(st.pumps) :
           Active(st.pumps[p]) => st.pumps[p].chatId \in Elems(NextOf(msg.chatIds))

\* ---------------------------------------------------- the page of src/app
\* src/app/page.tsx keeps the gateway in step with the project: whenever
\* projectChats or the selected chat change, and when the socket opens, it
\* sends subscribeMany for the other chats of the project and subscribe for
\* the selected one.

\* projectChats.map(c => c.id).filter(id => id !== effectiveSelectedChatId)
Others(a) == SelectSeq(a.projectChats, LAMBDA id : id # a.selected)

\* subscribeToProjectChats(ids) and subscribeToChat(selected, true) on an open
\* socket: lines 156-166
ResyncMsgs(a) ==
  <<[type |-> "subscribeMany", chatIds |-> Others(a), replay |-> FALSE]>>
  \o (IF a.selected = "" THEN <<>>
      ELSE <<[type |-> "subscribe", chatId |-> a.selected, replay |-> TRUE]>>)

\* what projectChats and effectiveSelectedChatId may be: the selected chat
\* is a chat of the project or null
AppStates ==
  {a \in [projectChats : {<<"a">>, <<"a", "b">>}, selected : IdInputs] :
     a.selected \in Elems(a.projectChats) \cup {""}}

\* the socket opens and ws.onopen sends for the project as it is: lines
\* 316-320
AppOpen(c) ==
  /\ Connection(c)
  /\ wire' = [wire EXCEPT ![c] = ResyncMsgs(app)]
  /\ UNCHANGED <<ui, app>>

\* the effect of lines 353-358 runs for new values of projectChats and
\* effectiveSelectedChatId (projectChats is a new array whenever chats or
\* chatProjectMap are set, also with the chats it had)
Resync(c, a) ==
  /\ wire[c] = <<>>
  /\ app' = a
  /\ wire' = [wire EXCEPT ![c] = IF conn[c] = "open" THEN ResyncMsgs(a) ELSE @]
  /\ UNCHANGED <<conn, streams, pumps, outbox, delivered, ui>>

\* the gateway handles the next message of the socket
Deliver(c) ==
  /\ wire[c] # <<>>
  /\ Message(c, Head(wire[c]))
  /\ wire' = [wire EXCEPT ![c] = Tail(@)]
  /\ UNCHANGED <<ui, app>>

ResyncNext ==
  \/ \E c \in Single : AppOpen(c)
  \/ \E c \in Single : \E a \in AppStates : Resync(c, a)
  \/ \E c \in Single : Deliver(c)
  \/ \E c \in Single : \E p \in PumpIds(c) : FetchResolve(c, p) /\ NoClient
  \/ \E c \in Single : \E p \in PumpIds(c) : Aborted(c, p) /\ NoClient

ResyncSpec == Init /\ [][ResyncNext]_vars

\* C29: when the page resyncs with subscribeMany(the project's chats but the
\* selected one, replay false) followed at once by subscribe(selected,
\* replay true), then after any number of resyncs on a connection, once the
\* gateway has handled what was sent, it runs exactly one active pump for
\* each chat of the project, the selected one included, and none for any
\* other chat.
C29_ResyncOnePumpPerProjectChat ==
  \A c \in Conns :
    (conn[c] = "open" /\ wire[c] = <<>>)
    => \A x \in Ids :
         Cardinality(ActiveOn(c, x)) = IF x \in Elems(app.projectChats) THEN 1 ELSE 0

\* C30: what is left in buf when the upstream ends or fails or the pump is
\* cancelled (a last frame without its blank line) is never forwarded: the
\* step that ends a pump with text in buf writes nothing to the client, even
\* when that text holds complete event and data lines.
C30_RemainderNeverForwarded ==
  [][\A c \in Conns : \A p \in PumpIds(c) :
       (/\ Live(pumps[c][p])
        /\ pumps[c][p].buf # <<>>
        /\ p \in DOMAIN pumps'[c]
        /\ pumps'[c][p].pc = "done")
       => outbox'[c] = outbox[c]]_vars

\* a pump has read the chunk "data:2" with its line end, a complete data
\* line with valid data but no blank line: it is in buf, nothing was written,
\* the upstream has nothing more and the pump is cancelled
C30_Witness ==
  \E c \in Conns : \E p \in PumpIds(c) :
    /\ pumps[c][p].pc = "read" /\ pumps[c][p].aborted
    /\ pumps[c][p].buf = DataMarker \o <<"2", NL>>
    /\ parseFrame(pumps[c][p].buf) # Null
    /\ pumps[c][p].queue = <<>>
    /\ outbox[c] = <<>>
====
